---- MODULE Spec2Model ----
(***************************************************************************)
(* Verification model of dedoc's per-page PDF pipelines, of the docx       *)
(* attachments extractor with its legacy compound-stream parser, and of    *)
(* the error-image saver of the training scripts.                          *)
(*                                                                         *)
(*   PdfTxtlayerReader._process_one_page    (text-layer page pipeline)     *)
(*   PdfImageReader._process_one_page       (image page pipeline)          *)
(*   DocxAttachmentsExtractor.__parse_ole_contents                         *)
(*   DocxAttachmentsExtractor.get_attachments                              *)
(*   ErrorsSaver.__save_images / __process_uid / __prepare_files           *)
(*                                                                         *)
(* Optional values (Python None) are sequences of length 0 or 1.           *)
(***************************************************************************)
EXTENDS Integers, Sequences, FiniteSets, TLC

(***************************************************************************)
(* Bounds of the model.                                                    *)
(***************************************************************************)
MaxCoord == 2       \* largest x_top_left of a generated box
MaxSize == 2        \* largest width of a generated box
MaxLines == 2       \* most line boxes on one text-layer page
MaxTables == 2      \* most tables the table recognizer returns for a page
ImgScale == 2       \* rendered-image pixels per native page unit
MaxSkew == 1        \* largest difference between the applied and the requested angle
MaxName == 2        \* longest filename of a generated compound stream
MaxField == 1       \* longest filepath and temporary path of a short generated stream
MaxPayload == 2     \* longest payload of a short generated compound stream
LongLen == 258      \* length of a field that needs the second byte of its length
MaxMembers == 3     \* most members in the listing of an archive

VARIABLES
    tpc,          \* position of PdfTxtlayerReader._process_one_page
    tparams,      \* ParametersForParseDoc fields read by the text-layer pipeline
    tframe,       \* self.gost_frame_boxes[page_number]
    ttables,      \* local `tables` (ScanTable objects, mutated in place)
    tpage,        \* local `page` (None or a PageWithBBox)
    textracted,   \* page.bboxes exactly as extract_text_layer returned them
    tframed,      \* page.bboxes after line 66 (the frame filter, when it runs)
    tsteps,       \* the calls the text-layer pipeline has made, in order
    tmixed,       \* a box comparison took two boxes of different spaces
    tresult,      \* the returned tuple (None until the return)
    ipc,          \* position of PdfImageReader._process_one_page
    iparams,      \* ParametersForParseDoc fields read by the image pipeline
    iimage,       \* the transforms applied so far to the local image
    ipredicted,   \* what column_orientation_classifier.predict returned (None: not called)
    irequested,   \* orientation_angle passed to skew_corrector.preprocess
    irotated,     \* rotated_angle returned by skew_corrector.preprocess
    ione_column,  \* is_one_column_document returned by the normalizer
    iangle,       \* angle returned by the normalizer
    itables,      \* local `tables` of the image pipeline
    icalls,       \* the collaborator calls the image pipeline has made, in order
    iocr_image,   \* the image ocr.split_image2lines received
    iresult,      \* the returned tuple (None until the return)
    opc,          \* position of __parse_ole_contents
    ofields,      \* the fields the parsed stream was built from
    ostream,      \* the parameter `stream`
    oresult,      \* what the call returned or that it raised
    gpc,          \* position of get_attachments
    gdoc,         \* the document get_attachments is called for
    ghandle,      \* the archive handle zfile: "none", "open" or "closed"
    gopens,       \* how many archive handles the call has opened
    gattachments, \* local `attachments` of lines 70-71
    gindex,       \* position of the loop of line 73 in `attachments`
    gresult,      \* local `result`
    gfailed,      \* positions in `attachments` whose processing raised
    greturn,      \* how the call ended: a list, None, or an exception that escaped
    epc,          \* position of ErrorsSaver.__save_images
    euids,        \* the parameter `errors_uids`
    eindex,       \* position of the loop of line 120 in `errors_uids`
    ecan_read,    \* per document, how many of images_creators can read it
    emade,        \* per document, the lines a creator's add_images draws an image for
    eimages_archive,        \* the names in images.zip
    eready_documents,       \* the list `ready_documents` of __save_images
    eready_images,          \* the list `ready_images` of __save_images
    eerrors_images_archive, \* the names written to errors_images.zip
    eerrors_documents_file  \* the list stored in errors_documents.json

tvars == <<tpc, tparams, tframe, ttables, tpage, textracted, tframed, tsteps, tmixed,
           tresult>>
ivars == <<ipc, iparams, iimage, ipredicted, irequested, irotated, ione_column, iangle,
           itables, icalls, iocr_image, iresult>>
ovars == <<opc, ofields, ostream, oresult>>
gvars == <<gpc, gdoc, ghandle, gopens, gattachments, gindex, gresult, gfailed, greturn>>
evars == <<epc, euids, eindex, ecan_read, emade, eimages_archive, eready_documents,
           eready_images, eerrors_images_archive, eerrors_documents_file>>

None == <<>>
Some(v) == <<v>>

Max(a, b) == IF a >= b THEN a ELSE b
Min(a, b) == IF a <= b THEN a ELSE b

(***************************************************************************)
(* BBox and the collaborators' data.                                       *)
(***************************************************************************)
BBox(x, y, w, h, space) ==
    [x_top_left |-> x, y_top_left |-> y, width |-> w, height |-> h, space |-> space]

\* BBox.have_intersection_with_box: positive-area overlap, touching edges do not count
have_intersection_with_box(block, box) ==
    LET x_min == Max(block.x_top_left, box.x_top_left)
        y_min == Max(block.y_top_left, box.y_top_left)
        x_max == Min(block.x_top_left + block.width, box.x_top_left + box.width)
        y_max == Min(block.y_top_left + block.height, box.y_top_left + box.height)
    IN  Max(0, x_max - x_min) * Max(0, y_max - y_min) > 0

\* BBox.shift: translate the box, the space it is expressed in is not changed
shift(box, shift_x, shift_y) ==
    [box EXCEPT !.x_top_left = @ + shift_x, !.y_top_left = @ + shift_y]

\* page sizes of the two coordinate spaces
PdfPageWidth == MaxCoord + MaxSize + 1
PdfPageHeight == MaxSize + 1
ImagePageWidth == ImgScale * PdfPageWidth
ImagePageHeight == ImgScale * PdfPageHeight

\* line boxes the text-layer extractor can return (native document space)
LineBoxes ==
    { BBox(x, 0, w, 1, "native") : x \in 0..MaxCoord, w \in {1, MaxSize} }

\* location boxes the table recognizer can return (pixels of the rendered image)
TableBoxes ==
    { BBox(1, 0, MaxSize, 1, "image"),
      BBox(MaxCoord, 0, MaxSize, 1, "image"),
      BBox(0, 1, MaxSize, 1, "image") }

\* a ScanTable with one location and one cell holding one line
ScanTable(loc) ==
    [locations |-> <<loc>>,
     matrix_cells |-> << << [bbox |-> loc,
                             lines |-> << [bbox |-> loc,
                                           page_width |-> ImagePageWidth,
                                           page_height |-> ImagePageHeight] >>] >> >>]

\* frames of self.gost_frame_boxes
FrameBoxes ==
    { BBox(x, 0, MaxSize + 1, 2, "native") : x \in 0..1 }

SeqsUpTo(S, n) == UNION { [1..k -> S] : k \in 0..n }

FlattenLocations(tables) ==
    LET RECURSIVE Go(_)
        Go(i) == IF i > Len(tables) THEN <<>>
                 ELSE tables[i].locations \o Go(i + 1)
    IN  Go(1)

(***************************************************************************)
(* Text-layer page pipeline: PdfTxtlayerReader.                            *)
(***************************************************************************)
\* Cell.shift: the cell box and the boxes of the cell's lines are translated
cell_shift(cell, shift_x, shift_y, image_width, image_height) ==
    [bbox |-> shift(cell.bbox, shift_x, shift_y),
     lines |-> [i \in 1..Len(cell.lines) |->
                   [cell.lines[i] EXCEPT !.bbox = shift(@, shift_x, shift_y)]]]

\* Cell.change_lines_boxes_page_width_height: linear rescale of the boxes of the
\* cell's lines from their page size to the new one; the cell box is not touched
change_lines_boxes_page_width_height(cell, new_page_width, new_page_height) ==
    [cell EXCEPT !.lines =
        [i \in 1..Len(cell.lines) |->
            LET line == cell.lines[i]
                b == line.bbox
            IN  [bbox |-> BBox((b.x_top_left * new_page_width) \div line.page_width,
                               (b.y_top_left * new_page_height) \div line.page_height,
                               (b.width * new_page_width) \div line.page_width,
                               (b.height * new_page_height) \div line.page_height,
                               "native"),
                 page_width |-> new_page_width,
                 page_height |-> new_page_height]]]

\* MetadataExtractor.extract_metadata_and_set_annotations: one line per box, in order
extract_metadata_and_set_annotations(page_with_lines) ==
    [i \in 1..Len(page_with_lines.bboxes) |-> [location |-> page_with_lines.bboxes[i]]]

\* _inside_any_unreadable_block giving up after the first block
inside_first_unreadable_block(obj_bbox, unreadable_blocks) ==
    /\ Len(unreadable_blocks) > 0
    /\ have_intersection_with_box(unreadable_blocks[1], obj_bbox)

\* lines 98-108
inside_any_unreadable_block(obj_bbox, unreadable_blocks) ==
    \E i \in 1..Len(unreadable_blocks) :
        have_intersection_with_box(unreadable_blocks[i], obj_bbox)

move_table_cells(tables, page_shift, page) ==
    [t \in 1..Len(tables) |->
        LET table == tables[t]
            shift_x == page_shift.x_top_left
            shift_y == page_shift.y_top_left
        IN  [locations |-> [l \in 1..Len(table.locations) |->
                               shift(table.locations[l], shift_x, shift_y)],
             matrix_cells |-> [r \in 1..Len(table.matrix_cells) |->
                 [c \in 1..Len(table.matrix_cells[r]) |->
                     cell_shift(table.matrix_cells[r][c], shift_x, shift_y,
                                page.pdf_page_width, page.pdf_page_height)]]]]

change_table_boxes_page_width_heigth(pdf_width, pdf_height, tables) ==
    [t \in 1..Len(tables) |->
        [tables[t] EXCEPT !.matrix_cells =
            [r \in 1..Len(tables[t].matrix_cells) |->
                [c \in 1..Len(tables[t].matrix_cells[r]) |->
                    change_lines_boxes_page_width_height(
                        tables[t].matrix_cells[r][c], pdf_width, pdf_height)]]]]

\* line 66: keep the boxes that intersect the readable block
frame_filter(bboxes, readable_block) ==
    SelectSeq(bboxes, LAMBDA bbox : inside_any_unreadable_block(bbox, <<readable_block>>))

\* line 68: drop the boxes that intersect a table location
table_filter(bboxes, unreadable_blocks) ==
    SelectSeq(bboxes, LAMBDA bbox : ~inside_any_unreadable_block(bbox, unreadable_blocks))

\* the table-exclusion comparison has compared a line box with a block of another space
compares_two_spaces(bboxes, unreadable_blocks) ==
    \E i \in 1..Len(bboxes), j \in 1..Len(unreadable_blocks) :
        /\ bboxes[i].space # unreadable_blocks[j].space
        /\ \A k \in 1..(j - 1) : ~have_intersection_with_box(unreadable_blocks[k], bboxes[i])

EmptyPageResult == [lines |-> <<>>, tables |-> <<>>, attachments |-> <<>>, angles |-> <<>>]

\* line 61 returning the tables the recognizer found
no_page_result_with_tables(tables) == [EmptyPageResult EXCEPT !.tables = tables]

\* line 61: return [], [], [], []
no_page_result(tables) == EmptyPageResult

TxtParams == [need_pdf_table_analysis : BOOLEAN, need_gost_frame_analysis : BOOLEAN]

TxtPages ==
    { [bboxes |-> b, attachments |-> a,
       pdf_page_width |-> PdfPageWidth, pdf_page_height |-> PdfPageHeight] :
        b \in SeqsUpTo(LineBoxes, MaxLines), a \in {<<"image_1">>} }

\* pages ocr.split_image2lines can return
OcrPages ==
    { [bboxes |-> b, attachments |-> <<>>] :
        b \in SeqsUpTo({BBox(0, 0, MaxSize, 1, "image")}, 1) }

TxtInit ==
    /\ tpc = "idle"
    /\ tparams = None
    /\ tframe = None
    /\ ttables = <<>>
    /\ tpage = None
    /\ textracted = <<>>
    /\ tframed = <<>>
    /\ tsteps = <<>>
    /\ tmixed = FALSE
    /\ tresult = None

\* the call of _process_one_page for one page
TxtStart ==
    /\ tpc = "idle"
    /\ \E p \in TxtParams :
        /\ tparams' = Some(p)
        /\ IF p.need_gost_frame_analysis
             THEN \E f \in FrameBoxes : tframe' = Some(f)
             ELSE tframe' = None
    /\ tpc' = "received"
    /\ UNCHANGED <<ttables, tpage, textracted, tframed, tsteps, tmixed, tresult>>

\* lines 46-57
TxtRecognizeTables ==
    /\ tpc = "received"
    /\ IF tparams[1].need_pdf_table_analysis
         THEN /\ \E locs \in SeqsUpTo(TableBoxes, MaxTables) :
                    ttables' = [i \in 1..Len(locs) |-> ScanTable(locs[i])]
              /\ tsteps' = Append(tsteps, "recognize_tables_from_image")
         ELSE /\ ttables' = <<>>
              /\ tsteps' = tsteps
    /\ tpc' = "tables_detected"
    /\ UNCHANGED <<tparams, tframe, tpage, textracted, tframed, tmixed, tresult>>

\* lines 59-61
TxtExtractTextLayer ==
    /\ tpc = "tables_detected"
    /\ tsteps' = Append(tsteps, "extract_text_layer")
    /\ \/ /\ tpage' = None
          /\ textracted' = <<>>
          /\ tresult' = Some(no_page_result(ttables))
          /\ tpc' = "done"
       \/ /\ \E page \in TxtPages :
                /\ tpage' = Some(page)
                /\ textracted' = page.bboxes
          /\ tresult' = tresult
          /\ tpc' = "text_extracted"
    /\ UNCHANGED <<tparams, tframe, ttables, tframed, tmixed>>

\* lines 62-72
TxtReconcile ==
    /\ tpc = "text_extracted"
    /\ LET page == tpage[1]
           gost == tparams[1].need_gost_frame_analysis
           moved == IF gost THEN move_table_cells(ttables, tframe[1], page) ELSE ttables
           in_frame == IF gost THEN frame_filter(page.bboxes, tframe[1]) ELSE page.bboxes
           unreadable_blocks == FlattenLocations(moved)
           kept == table_filter(in_frame, unreadable_blocks)
           final_page == [page EXCEPT !.bboxes = kept]
           lines == extract_metadata_and_set_annotations(final_page)
           tables == change_table_boxes_page_width_heigth(
                         page.pdf_page_width, page.pdf_page_height, moved)
       IN  /\ tpage' = Some(final_page)
           /\ tframed' = in_frame
           /\ ttables' = tables
           /\ tmixed' = compares_two_spaces(in_frame, unreadable_blocks)
           /\ tsteps' = tsteps
                  \o (IF gost THEN <<"_move_table_cells", "frame_filter">> ELSE <<>>)
                  \o <<"table_filter", "extract_metadata_and_set_annotations",
                       "change_table_boxes_page_width_heigth">>
           /\ tresult' = Some([lines |-> lines, tables |-> tables,
                               attachments |-> page.attachments, angles |-> <<>>])
    /\ tpc' = "done"
    /\ UNCHANGED <<tparams, tframe, textracted>>

(***************************************************************************)
(* Image page pipeline: PdfImageReader.                                    *)
(***************************************************************************)
\* values of parameters.document_orientation when it is supplied
DocumentOrientations == {0, 90}

\* outputs of ColumnsOrientationClassifier.predict
PredictedColumns == {1, 2}
PredictedAngles == {0, 90, 180, 270}

\* SkewCorrector.preprocess may apply an angle that differs from the requested one
SkewDeltas == (0 - MaxSkew)..MaxSkew

ImgParams ==
    [is_one_column_document : {None} \cup {Some(b) : b \in BOOLEAN},
     document_orientation : {None} \cup {Some(a) : a \in DocumentOrientations},
     need_binarization : BOOLEAN,
     need_pdf_table_analysis : BOOLEAN]

\* line 112 without its condition
classifier_is_called_always(parameters) == TRUE

\* line 112
classifier_is_called(parameters) ==
    parameters.is_one_column_document = None \/ parameters.document_orientation = None

\* line 116
is_one_column_document(parameters, columns) ==
    IF parameters.is_one_column_document = None
      THEN columns = Some(1)
      ELSE parameters.is_one_column_document[1]

\* line 117 ignoring the orientation hint
orientation_angle_predicted_only(parameters, angle) == angle

\* line 117
orientation_angle(parameters, angle) ==
    IF parameters.document_orientation = None THEN angle ELSE Some(0)

\* line 129 returning the requested angle
returned_requested_angle(requested, rotated_angle) == requested

\* lines 121 and 129
returned_angle(requested, rotated_angle) == rotated_angle

\* line 95 returning no angle
NoAngles(angle) == <<>>

\* line 95
ImgAngles(angle) == <<angle>>

ImgInit ==
    /\ ipc = "idle"
    /\ iparams = None
    /\ iimage = <<>>
    /\ ipredicted = None
    /\ irequested = None
    /\ irotated = None
    /\ ione_column = None
    /\ iangle = None
    /\ itables = <<>>
    /\ icalls = <<>>
    /\ iocr_image = None
    /\ iresult = None

\* the call of _process_one_page for one page image
ImgStart ==
    /\ ipc = "idle"
    /\ \E p \in ImgParams : iparams' = Some(p)
    /\ ipc' = "received"
    /\ UNCHANGED <<iimage, ipredicted, irequested, irotated, ione_column, iangle,
                   itables, icalls, iocr_image, iresult>>

\* line 67 and _detect_column_count_and_orientation, lines 110-129
ImgDetectColumnCountAndOrientation ==
    /\ ipc = "received"
    /\ LET parameters == iparams[1]
       IN  \E predicted \in
                 IF classifier_is_called(parameters)
                   THEN {Some([columns |-> c, angle |-> a]) :
                            c \in PredictedColumns, a \in PredictedAngles}
                   ELSE {None} :
             LET columns == IF predicted = None THEN None ELSE Some(predicted[1].columns)
                 angle == IF predicted = None THEN None ELSE Some(predicted[1].angle)
                 requested == orientation_angle(parameters, angle)
             IN  /\ requested # None
                 /\ \E d \in SkewDeltas :
                       LET rotated_angle == requested[1] + d
                       IN  /\ irotated' = Some(rotated_angle)
                           /\ iangle' = Some(returned_angle(requested[1], rotated_angle))
                 /\ ipredicted' = predicted
                 /\ irequested' = requested
                 /\ ione_column' = Some(is_one_column_document(parameters, columns))
                 /\ icalls' = icalls
                        \o (IF predicted = None THEN <<>> ELSE <<"predict">>)
                        \o <<"skew_corrector">>
    /\ iimage' = Append(iimage, "rotated")
    /\ ipc' = "normalized"
    /\ UNCHANGED <<iparams, itables, iocr_image, iresult>>

\* lines 72-76 without the test of need_binarization
ImgBinarizeAlways ==
    /\ ipc = "normalized"
    /\ iimage' = Append(iimage, "binarized")
    /\ icalls' = Append(icalls, "binarizer")
    /\ ipc' = "binarized"
    /\ UNCHANGED <<iparams, ipredicted, irequested, irotated, ione_column, iangle,
                   itables, iocr_image, iresult>>

\* lines 72-76
ImgBinarize ==
    /\ ipc = "normalized"
    /\ IF iparams[1].need_binarization
         THEN /\ iimage' = Append(iimage, "binarized")
              /\ icalls' = Append(icalls, "binarizer")
         ELSE UNCHANGED <<iimage, icalls>>
    /\ ipc' = "binarized"
    /\ UNCHANGED <<iparams, ipredicted, irequested, irotated, ione_column, iangle,
                   itables, iocr_image, iresult>>

\* lines 79-89
ImgRecognizeTables ==
    /\ ipc = "binarized"
    /\ IF iparams[1].need_pdf_table_analysis
         THEN /\ \E locs \in SeqsUpTo(TableBoxes, 1) :
                    itables' = [i \in 1..Len(locs) |-> ScanTable(locs[i])]
              /\ iimage' = Append(iimage, "cleaned")
              /\ icalls' = Append(icalls, "recognize_tables_from_image")
         ELSE /\ itables' = <<>>
              /\ UNCHANGED <<iimage, icalls>>
    /\ ipc' = "tables_detected"
    /\ UNCHANGED <<iparams, ipredicted, irequested, irotated, ione_column, iangle,
                   iocr_image, iresult>>

\* lines 92-95
ImgExtractText ==
    /\ ipc = "tables_detected"
    /\ iocr_image' = Some(iimage)
    /\ icalls' = icalls \o <<"split_image2lines", "extract_metadata_and_set_annotations">>
    /\ \E page \in OcrPages :
          iresult' = Some([lines |-> extract_metadata_and_set_annotations(page),
                           tables |-> itables,
                           attachments |-> page.attachments,
                           angles |-> ImgAngles(iangle[1])])
    /\ ipc' = "done"
    /\ UNCHANGED <<iparams, iimage, ipredicted, irequested, irotated, ione_column,
                   iangle, itables>>

(***************************************************************************)
(* Compound stream parser: DocxAttachmentsExtractor.__parse_ole_contents.  *)
(* A stream is a sequence of bytes (0..255); a str is a sequence of code   *)
(* points.                                                                 *)
(***************************************************************************)
\* Python slices stream[n:] and stream[:n]: never an error, short when the stream is short
Drop(stream, n) == SubSeq(stream, n + 1, Len(stream))
Take(stream, n) == SubSeq(stream, 1, Min(n, Len(stream)))

\* chr(ord_chr): the code point with the number of the byte
chr(ord_chr) == ord_chr

\* the loops of lines 27-30 and 34-37: the bytes before the first zero byte (all of
\* them when there is none)
BeforeZero(stream) ==
    LET zeros == { i \in 1..Len(stream) : stream[i] = 0 }
        first == IF zeros = {} THEN Len(stream) + 1
                 ELSE CHOOSE i \in zeros : \A j \in zeros : i <= j
    IN  SubSeq(stream, 1, first - 1)

\* lines 42-45 and 48-51, read as big endian
big_endian32(stream) ==
    stream[4] + stream[3] * 256 + stream[2] * 65536 + stream[1] * 16777216

\* lines 42-45 and 48-51: stream[0] | stream[1] << 8 | stream[2] << 16 | stream[3] << 24
little_endian32(stream) ==
    stream[1] + stream[2] * 256 + stream[3] * 65536 + stream[4] * 16777216

IndexError == [raised |-> TRUE, filename |-> <<>>, contents |-> <<>>]

\* line 39
after_filepath(stream, filesize) == Drop(stream, filesize + 1 + 4)

\* line 53
contents_of(stream, size) == Take(stream, size)

\* lines 25-54
parse_ole_contents(stream) ==
    LET stream1 == Drop(stream, 6)
        name_bytes == BeforeZero(stream1)
        filename == [i \in 1..Len(name_bytes) |-> chr(name_bytes[i])]
        stream2 == Drop(stream1, Len(filename) + 1)
        filesize == Len(BeforeZero(stream2))
        stream3 == after_filepath(stream2, filesize)
    IN  IF Len(stream3) < 4 THEN IndexError
        ELSE LET temporary_filepath_size == little_endian32(stream3)
                 stream4 == Drop(stream3, 4 + temporary_filepath_size)
             IN  IF Len(stream4) < 4 THEN IndexError
                 ELSE LET size == little_endian32(stream4)
                          stream5 == Drop(stream4, 4)
                      IN  [raised |-> FALSE,
                           filename |-> filename,
                           contents |-> contents_of(stream5, size)]

\* the layout of a compound stream, field by field
LE32(n) == <<n % 256, (n \div 256) % 256, (n \div 65536) % 256, (n \div 16777216) % 256>>

Repeat(b, n) == [i \in 1..n |-> b]

CompleteLen(f) ==
    6 + Len(f.filename) + 1 + Len(f.filepath) + 1 + 4 + 4 + Len(f.temporary_filepath)
      + 4 + Len(f.payload)

BuildStream(f) ==
    Repeat(2, 6) \o f.filename \o <<0>> \o f.filepath \o <<0>> \o Repeat(7, 4)
      \o LE32(Len(f.temporary_filepath)) \o f.temporary_filepath
      \o LE32(Len(f.payload)) \o f.payload \o f.trailing

\* payloads with and without a zero byte
OlePayloads ==
    SeqsUpTo({37}, MaxPayload) \cup { <<0>> \o p : p \in SeqsUpTo({37}, MaxPayload - 1) }

\* the fields of the generated streams: short ones over small alphabets, and streams
\* whose payload or temporary path is long enough to use the second length byte
OleFields ==
    [filename : SeqsUpTo({65, 200}, MaxName),
     filepath : SeqsUpTo({66}, MaxField),
     temporary_filepath : SeqsUpTo({0}, MaxField),
     payload : OlePayloads,
     trailing : {<<>>, <<9>>}]
    \cup
    { [filename |-> <<65>>, filepath |-> <<>>, temporary_filepath |-> t,
       payload |-> p, trailing |-> <<9>>] :
        t \in {<<>>, Repeat(67, LongLen)}, p \in {<<37>>, Repeat(37, LongLen)} }

OleInit ==
    /\ opc = "idle"
    /\ ofields = None
    /\ ostream = <<>>
    /\ oresult = None

\* __parse_ole_contents on the first `cut` bytes of a generated stream
OleParse ==
    /\ opc = "idle"
    /\ \E f \in OleFields :
          \E cut \in 0..Len(BuildStream(f)) :
             /\ ofields' = Some(f)
             /\ ostream' = Take(BuildStream(f), cut)
             /\ oresult' = Some(parse_ole_contents(Take(BuildStream(f), cut)))
    /\ opc' = "done"

(***************************************************************************)
(* Attachment collector: DocxAttachmentsExtractor.get_attachments.         *)
(* Names and paths are str values: sequences of code points.               *)
(***************************************************************************)
Str_word_media == <<119, 111, 114, 100, 47, 109, 101, 100, 105, 97, 47>>                  \* "word/media/"
Str_word_embeddings == <<119, 111, 114, 100, 47, 101, 109, 98, 101, 100, 100, 105, 110, 103, 115, 47>>     \* "word/embeddings/"
Str_emf == <<46, 101, 109, 102>>                                                  \* ".emf"
Str_bin == <<46, 98, 105, 110>>                                                  \* ".bin"
Str_pdf == <<46, 112, 100, 102>>                                                 \* ".pdf"
Str_docx == <<46, 100, 111, 99, 120>>                                           \* ".docx"
PdfMagic == <<37, 80, 68, 70, 45>>                                              \* b"%PDF-"

\* str.startswith and str.endswith
startswith(str, prefix) ==
    Len(str) >= Len(prefix) /\ SubSeq(str, 1, Len(prefix)) = prefix

endswith(str, suffix) ==
    Len(str) >= Len(suffix)
      /\ SubSeq(str, Len(str) - Len(suffix) + 1, Len(str)) = suffix

\* os.path.split(path)[-1]: what follows the last "/"
os_path_split_tail(path) ==
    LET slashes == { i \in 1..Len(path) : path[i] = 47 }
        last == IF slashes = {} THEN 0
                ELSE CHOOSE i \in slashes : \A j \in slashes : j <= i
    IN  SubSeq(path, last + 1, Len(path))

\* os.path.splitext(name)[-2]: the name without its extension (the last "." and what
\* follows it, unless only dots come before that ".")
os_path_splitext_root(name) ==
    LET dots == { i \in 1..Len(name) : name[i] = 46 }
        last == IF dots = {} THEN 0
                ELSE CHOOSE i \in dots : \A j \in dots : j <= i
    IN  IF last > 0 /\ \E j \in 1..(last - 1) : name[j] # 46
          THEN SubSeq(name, 1, last - 1)
          ELSE name

\* a compound stream the parser reads completely, and the same stream cut in its
\* first length field
GoodNativeStream ==
    BuildStream([filename |-> <<110>>, filepath |-> <<>>, temporary_filepath |-> <<>>,
                 payload |-> <<7, 7>>, trailing |-> <<>>])
CutNativeStream == Take(GoodNativeStream, Len(GoodNativeStream) - 7)

\* what olefile.OleFileIO finds in the bytes of a .bin member: it cannot parse them
\* (corrupt), or the streams CONTENTS and \x01Ole10Native when they exist
OleFile(corrupt, contents, native) ==
    [corrupt |-> corrupt, CONTENTS |-> contents, Ole10Native |-> native]

OleFiles ==
    { OleFile(FALSE, Some(PdfMagic \o <<49>>), None),
      OleFile(FALSE, Some(PdfMagic \o <<49>>), Some(GoodNativeStream)),
      OleFile(FALSE, Some(<<37, 80, 68>>), Some(GoodNativeStream)),
      OleFile(FALSE, None, Some(GoodNativeStream)),
      OleFile(FALSE, None, Some(CutNativeStream)),
      OleFile(FALSE, None, None),
      OleFile(TRUE, None, None) }

NoOleFile == OleFile(TRUE, None, None)

\* archive members: a path, the raw bytes, and for a .bin member what the bytes hold
Member(path, data, ole) == [path |-> path, data |-> data, ole |-> ole]

PlainMembers ==
    { Member(Str_word_media \o <<97, 46, 112, 110, 103>>, <<1>>, NoOleFile),           \* word/media/a.png
      Member(Str_word_media \o <<104, 46, 106, 112, 103>>, <<2>>, NoOleFile),           \* word/media/h.jpg
      Member(Str_word_media \o <<98, 46, 101, 109, 102>>, <<3>>, NoOleFile),           \* word/media/b.emf
      Member(Str_word_embeddings \o <<100, 46, 120, 108, 115>>, <<4>>, NoOleFile),      \* word/embeddings/d.xls
      Member(<<119, 111, 114, 100, 47, 101, 46, 120, 109, 108>>, <<5>>, NoOleFile) }                       \* word/e.xml

BinMembers ==
    { Member(Str_word_embeddings \o <<99, 46, 98, 105, 110>>, <<6>>, o) : o \in OleFiles }  \* word/embeddings/c.bin

ArchiveMembers == PlainMembers \cup BinMembers

\* listings of an archive: members with distinct paths, in any order
Listings ==
    { l \in SeqsUpTo(ArchiveMembers, MaxMembers) :
        \A i, j \in 1..Len(l) : i # j => l[i].path # l[j].path }

\* the document: the extension splitext_ finds in its name, whether zipfile.ZipFile can
\* open it, and the listing of the archive
Documents ==
    { [ext |-> Str_docx, openable |-> TRUE, files |-> l] : l \in Listings }
    \cup { [ext |-> e, openable |-> FALSE, files |-> <<>>] : e \in {Str_docx, Str_pdf} }
    \cup { [ext |-> Str_pdf, openable |-> TRUE, files |-> <<>>] }

\* lines 70-71 taking the members of both subtrees in one pass over the listing
attachments_in_listing_order(files) ==
    SelectSeq(files, LAMBDA file : startswith(file.path, Str_word_media)
                                   \/ startswith(file.path, Str_word_embeddings))

\* lines 70-71
attachments_of(files) ==
    SelectSeq(files, LAMBDA file : startswith(file.path, Str_word_media))
      \o SelectSeq(files, LAMBDA file : startswith(file.path, Str_word_embeddings))

\* lines 74-90 for one attachment: the tuples appended to result, or that it raised
process_attachment(attachment) ==
    LET original_name == os_path_split_tail(attachment.path)
        ole == attachment.ole
    IN  IF ~endswith(original_name, Str_emf) /\ ~endswith(original_name, Str_bin)
          THEN [raised |-> FALSE, appended |-> << <<original_name, attachment.data>> >>]
        ELSE IF endswith(original_name, Str_bin)
          THEN IF ole.corrupt
                 THEN [raised |-> TRUE, appended |-> <<>>]
               ELSE IF ole.CONTENTS # None
                 THEN IF Take(ole.CONTENTS[1], 5) = PdfMagic
                        THEN [raised |-> FALSE,
                              appended |-> << <<os_path_splitext_root(original_name)
                                                  \o Str_pdf, ole.CONTENTS[1]>> >>]
                        ELSE [raised |-> FALSE, appended |-> <<>>]
               ELSE IF ole.Ole10Native # None
                 THEN LET parsed == parse_ole_contents(ole.Ole10Native[1])
                      IN  IF parsed.raised
                            THEN [raised |-> TRUE, appended |-> <<>>]
                            ELSE [raised |-> FALSE,
                                  appended |-> << <<parsed.filename, parsed.contents>> >>]
               ELSE [raised |-> FALSE, appended |-> <<>>]
        ELSE [raised |-> FALSE, appended |-> <<>>]

\* AbstractAttachmentsExtractor._content2attach_file: one AttachedFile per tuple, in order
content2attach_file(content) ==
    [i \in 1..Len(content) |-> [original_name |-> content[i][1], data |-> content[i][2]]]

\* leaving the with block of line 67 without closing the archive
handle_left_as_is(handle) == handle

\* leaving the with block of line 67, by a return or by an exception
handle_after_with(handle) == "closed"

Returned(kind, value) == Some([kind |-> kind, value |-> value])

GaInit ==
    /\ gpc = "idle"
    /\ gdoc = None
    /\ ghandle = "none"
    /\ gopens = 0
    /\ gattachments = <<>>
    /\ gindex = 0
    /\ gresult = <<>>
    /\ gfailed = <<>>
    /\ greturn = None

\* the call of get_attachments for one document, lines 63-64
GaCall ==
    /\ gpc = "idle"
    /\ \E doc \in Documents : gdoc' = Some(doc)
    /\ gresult' = <<>>
    /\ gpc' = "called"
    /\ UNCHANGED <<ghandle, gopens, gattachments, gindex, gfailed, greturn>>

\* lines 66-71: the extension test, zipfile.ZipFile and the list of attachments; a
\* document of another extension falls off the end of the function
GaOpen ==
    /\ gpc = "called"
    /\ IF gdoc[1].ext # Str_docx
         THEN /\ greturn' = Returned("None", <<>>)
              /\ gpc' = "done"
              /\ UNCHANGED <<ghandle, gopens, gattachments, gindex>>
         ELSE IF ~gdoc[1].openable
           THEN /\ greturn' = Returned("raised", <<>>)
                /\ gpc' = "done"
                /\ UNCHANGED <<ghandle, gopens, gattachments, gindex>>
           ELSE /\ ghandle' = "open"
                /\ gopens' = gopens + 1
                /\ gattachments' = attachments_of(gdoc[1].files)
                /\ gindex' = 1
                /\ gpc' = "loop"
                /\ greturn' = greturn
    /\ UNCHANGED <<gdoc, gresult, gfailed>>

\* lines 73-90 for the next attachment; an exception leads to lines 94-96
GaEntry ==
    /\ gpc = "loop"
    /\ gindex <= Len(gattachments)
    /\ LET done == process_attachment(gattachments[gindex])
       IN  IF done.raised
             THEN /\ gfailed' = Append(gfailed, gindex)
                  /\ greturn' = Returned("list", <<>>)
                  /\ ghandle' = handle_after_with(ghandle)
                  /\ gpc' = "done"
                  /\ UNCHANGED <<gresult, gindex>>
             ELSE /\ gresult' = gresult \o done.appended
                  /\ gindex' = gindex + 1
                  /\ UNCHANGED <<gfailed, greturn, ghandle, gpc>>
    /\ UNCHANGED <<gdoc, gopens, gattachments>>

\* a KeyboardInterrupt inside the loop: not an Exception, it leaves the function
GaInterrupt ==
    /\ gpc = "loop"
    /\ gindex <= Len(gattachments)
    /\ greturn' = Returned("raised", <<>>)
    /\ ghandle' = handle_after_with(ghandle)
    /\ gpc' = "done"
    /\ UNCHANGED <<gdoc, gopens, gattachments, gindex, gresult, gfailed>>

\* lines 91-93
GaReturn ==
    /\ gpc = "loop"
    /\ gindex > Len(gattachments)
    /\ greturn' = Returned("list", content2attach_file(gresult))
    /\ ghandle' = handle_after_with(ghandle)
    /\ gpc' = "done"
    /\ UNCHANGED <<gdoc, gopens, gattachments, gindex, gresult, gfailed>>


(***************************************************************************)
(* ErrorsSaver.__save_images (errors_saver.py).                            *)
(*                                                                         *)
(* The dataset holds two documents: "d1" with the lines "u1" and "u2",     *)
(* "d2" with the line "u3".  Archives are the sets of their member names;  *)
(* an image name is the pair of the uid and the suffix ".jpg".             *)
(***************************************************************************)
Uids == {"u1", "u2", "u3"}
DocumentNames == {"d1", "d2"}

\* filtered_dataset[filtered_dataset.uid == uid].head(1).group.item()
document_name_of(uid) == IF uid = "u3" THEN "d2" ELSE "d1"

\* self.data[document_name]: the lines of a document, by uid
document_lines(document_name) == { u \in Uids : document_name_of(u) = document_name }

\* f"{uid}.jpg"
img_name(uid) == <<uid, ".jpg">>

ImageNames == { img_name(u) : u \in Uids }

\* errors_uids: save_errors asserts that the uids are distinct
ErrorsUids ==
    { q \in SeqsUpTo(Uids, Cardinality(Uids)) :
        \A i, j \in 1..Len(q) : i # j => q[i] # q[j] }

\* the lists errors_documents.json can hold when __save_images starts
StoredDocuments == { <<>>, <<"d1">>, <<"d2">>, <<"d1", "d2">> }

\* the three images_creators of lines 106-110: none, one or two of them can read a document
CanRead == [DocumentNames -> 0..2]

\* creator.add_images(page=document_lines, archive=images_archive): the creator puts
\* into the archive an image named after the uid of each line it draws
add_images(made, archive) == archive \union { img_name(u) : u \in made }

Made == { m \in [DocumentNames -> SUBSET Uids] :
            \A d \in DocumentNames : m[d] \subseteq document_lines(d) }

\* lines 160-178: <<ready_documents, ready_images>>
prepare_files(archive_exists, names, stored) ==
    IF ~archive_exists THEN <<<<>>, {}>> ELSE <<stored, names>>

\* ready_images as the code after line 147 of __process_uid sees it: the name is
\* rebound inside __process_uid, the list of __save_images is not changed
ready_images_rebound(created, archive, caller_list) ==
    IF created THEN archive ELSE caller_list

\* lines 123-158 for one uid: the new images archive, ready_documents, errors archive
process_uid(uid, can_read, made, archive, ready_documents, ready_images, errors) ==
    LET document_name == document_name_of(uid)
        name == img_name(uid)
        fresh == /\ \A i \in 1..Len(ready_documents) : ready_documents[i] # document_name
                 /\ name \notin ready_images
        readers == IF fresh THEN can_read[document_name] ELSE 0
        archive2 == IF readers > 0 THEN add_images(made[document_name], archive)
                                   ELSE archive
        local_ready_images == ready_images_rebound(readers > 0, archive2, ready_images)
    IN  [ images_archive  |-> archive2,
          ready_documents |-> ready_documents \o Repeat(document_name, readers),
          errors_archive  |-> IF name \in local_ready_images
                                THEN errors \union {name} ELSE errors ]

EsInit ==
    /\ epc = "idle"
    /\ euids = <<>>
    /\ eindex = 0
    /\ ecan_read = [d \in DocumentNames |-> 0]
    /\ emade = [d \in DocumentNames |-> {}]
    /\ eimages_archive = {}
    /\ eready_documents = <<>>
    /\ eready_images = {}
    /\ eerrors_images_archive = {}
    /\ eerrors_documents_file = <<>>

\* lines 98-118: the inputs, __prepare_files, and the two archives opened
EsStart ==
    /\ epc = "idle"
    /\ \E uids \in ErrorsUids, can_read \in CanRead, made \in Made,
          archive_exists \in BOOLEAN, names \in SUBSET ImageNames,
          stored \in StoredDocuments :
          /\ ~archive_exists => (names = {} /\ stored = <<>>)
          /\ euids' = uids
          /\ ecan_read' = can_read
          /\ emade' = made
          /\ eimages_archive' = names
          /\ eready_documents' = prepare_files(archive_exists, names, stored)[1]
          /\ eready_images' = prepare_files(archive_exists, names, stored)[2]
          /\ eerrors_documents_file' = stored
    /\ eerrors_images_archive' = {}
    /\ eindex' = 1
    /\ epc' = "loop"

\* lines 120-121: one turn of the loop, the whole of __process_uid
EsProcessUid ==
    /\ epc = "loop"
    /\ eindex <= Len(euids)
    /\ LET r == process_uid(euids[eindex], ecan_read, emade, eimages_archive,
                            eready_documents, eready_images, eerrors_images_archive)
       IN  /\ eimages_archive' = r.images_archive
           /\ eready_documents' = r.ready_documents
           /\ eerrors_images_archive' = r.errors_archive
           /\ eerrors_documents_file' = r.ready_documents
    /\ eindex' = eindex + 1
    /\ UNCHANGED <<epc, euids, ecan_read, emade, eready_images>>

\* line 119: the loop is over, both archives are closed
EsFinish ==
    /\ epc = "loop"
    /\ eindex > Len(euids)
    /\ epc' = "done"
    /\ UNCHANGED <<euids, eindex, ecan_read, emade, eimages_archive, eready_documents,
                   eready_images, eerrors_images_archive, eerrors_documents_file>>


(***************************************************************************)
(* One call at a time: a page goes through one of the two readers, a       *)
(* stream goes through the parser, a document through the collector, or    *)
(* a list of uids through the error-image saver.                           *)
(***************************************************************************)
vars == <<tvars, ivars, ovars, gvars, evars>>

Idle == tpc = "idle" /\ ipc = "idle" /\ opc = "idle" /\ gpc = "idle" /\ epc = "idle"

Init == TxtInit /\ ImgInit /\ OleInit /\ GaInit /\ EsInit

Next ==
    \/ Idle /\ TxtStart /\ UNCHANGED <<ivars, ovars, gvars, evars>>
    \/ TxtRecognizeTables /\ UNCHANGED <<ivars, ovars, gvars, evars>>
    \/ TxtExtractTextLayer /\ UNCHANGED <<ivars, ovars, gvars, evars>>
    \/ TxtReconcile /\ UNCHANGED <<ivars, ovars, gvars, evars>>
    \/ Idle /\ ImgStart /\ UNCHANGED <<tvars, ovars, gvars, evars>>
    \/ ImgDetectColumnCountAndOrientation /\ UNCHANGED <<tvars, ovars, gvars, evars>>
    \/ ImgBinarize /\ UNCHANGED <<tvars, ovars, gvars, evars>>
    \/ ImgRecognizeTables /\ UNCHANGED <<tvars, ovars, gvars, evars>>
    \/ ImgExtractText /\ UNCHANGED <<tvars, ovars, gvars, evars>>
    \/ Idle /\ OleParse /\ UNCHANGED <<tvars, ivars, gvars, evars>>
    \/ Idle /\ GaCall /\ UNCHANGED <<tvars, ivars, ovars, evars>>
    \/ GaOpen /\ UNCHANGED <<tvars, ivars, ovars, evars>>
    \/ GaEntry /\ UNCHANGED <<tvars, ivars, ovars, evars>>
    \/ GaInterrupt /\ UNCHANGED <<tvars, ivars, ovars, evars>>
    \/ GaReturn /\ UNCHANGED <<tvars, ivars, ovars, evars>>
    \/ Idle /\ EsStart /\ UNCHANGED <<tvars, ivars, ovars, gvars>>
    \/ EsProcessUid /\ UNCHANGED <<tvars, ivars, ovars, gvars>>
    \/ EsFinish /\ UNCHANGED <<tvars, ivars, ovars, gvars>>

Spec == Init /\ [][Next]_vars

(***************************************************************************)
(* Properties.                                                             *)
(***************************************************************************)
\* two boxes with integer corners overlap with positive area iff they share a unit square
PositiveOverlap(a, b) ==
    \E px \in a.x_top_left..(a.x_top_left + a.width - 1),
       py \in a.y_top_left..(a.y_top_left + a.height - 1) :
        /\ b.x_top_left <= px /\ px < b.x_top_left + b.width
        /\ b.y_top_left <= py /\ py < b.y_top_left + b.height

\* the boxes share a boundary point and no area
TouchesOnly(a, b) ==
    /\ ~PositiveOverlap(a, b)
    /\ Max(a.x_top_left, b.x_top_left) <= Min(a.x_top_left + a.width, b.x_top_left + b.width)
    /\ Max(a.y_top_left, b.y_top_left) <= Min(a.y_top_left + a.height, b.y_top_left + b.height)

\* box a lies inside box b
InsideBox(a, b) ==
    /\ b.x_top_left <= a.x_top_left /\ a.x_top_left + a.width <= b.x_top_left + b.width
    /\ b.y_top_left <= a.y_top_left /\ a.y_top_left + a.height <= b.y_top_left + b.height

TxtReturnedPage == tpc = "done" /\ tpage # None
TxtReturnedNoPage == tpc = "done" /\ tpage = None

ReturnedLocations == FlattenLocations(tresult[1].tables)

ClearOfTables(bboxes) ==
    SelectSeq(bboxes, LAMBDA b :
        \A i \in 1..Len(ReturnedLocations) : ~PositiveOverlap(b, ReturnedLocations[i]))

LineBoxesOf(lines) == [i \in 1..Len(lines) |-> lines[i].location]

\* C1, as stated: the lines that survive reconciliation are exactly the text-layer
\* line boxes, in their original order, that have no positive-area overlap with any
\* table location box.
C1_AllExtractedLinesClearOfTablesSurvive ==
    TxtReturnedPage => LineBoxesOf(tresult[1].lines) = ClearOfTables(textracted)

\* C1, amended: the lines that survive are exactly, in their original order, the line
\* boxes handed to the table-exclusion filter (all boxes of the page without frame
\* analysis, the boxes the frame filter left with it) that have no positive-area
\* overlap with any table location box as returned (shifted by the frame offset when
\* frame analysis is on); a box that only touches a location's edge is kept.
C1_TableExclusion ==
    TxtReturnedPage =>
        /\ LineBoxesOf(tresult[1].lines) = ClearOfTables(tframed)
        /\ ~tparams[1].need_gost_frame_analysis => tframed = textracted

\* C1 witness: two table locations, a line box removed for overlapping the second one
\* only, and a surviving line box that touches a location's edge.
C1_Witness ==
    /\ TxtReturnedPage
    /\ Len(ReturnedLocations) >= 2
    /\ \E i \in 1..Len(textracted) :
          /\ ~PositiveOverlap(textracted[i], ReturnedLocations[1])
          /\ PositiveOverlap(textracted[i], ReturnedLocations[2])
    /\ \E i \in 1..Len(tresult[1].lines), j \in 1..Len(ReturnedLocations) :
          TouchesOnly(tresult[1].lines[i].location, ReturnedLocations[j])

\* C2: with a readable frame in effect the line boxes kept all lie inside the frame's
\* box (a box partly outside the frame is dropped), and the frame filter runs before
\* the table-exclusion filter.
C2_KeptLinesInsideFrame ==
    (TxtReturnedPage /\ tparams[1].need_gost_frame_analysis) =>
        /\ \A i \in 1..Len(tresult[1].lines) :
              InsideBox(tresult[1].lines[i].location, tframe[1])
        /\ \E i, j \in 1..Len(tsteps) :
              i < j /\ tsteps[i] = "frame_filter" /\ tsteps[j] = "table_filter"

SpacesOfResult ==
    { tresult[1].lines[i].location.space : i \in 1..Len(tresult[1].lines) }
    \cup { ReturnedLocations[i].space : i \in 1..Len(ReturnedLocations) }
    \cup UNION { UNION { UNION {
            {tresult[1].tables[t].matrix_cells[r][c].bbox.space}
            \cup { tresult[1].tables[t].matrix_cells[r][c].lines[l].bbox.space :
                     l \in 1..Len(tresult[1].tables[t].matrix_cells[r][c].lines) } :
            c \in 1..Len(tresult[1].tables[t].matrix_cells[r]) } :
            r \in 1..Len(tresult[1].tables[t].matrix_cells) } :
            t \in 1..Len(tresult[1].tables) }

\* C3: in every returned text-layer page result the boxes of the lines, of the table
\* locations, of the cells and of the cells' lines are all in the page's native space,
\* and the table-exclusion comparison never compared boxes of two different spaces.
C3_OneCoordinateSpace ==
    TxtReturnedPage => (SpacesOfResult \subseteq {"native"} /\ ~tmixed)

BothHints ==
    iparams[1].is_one_column_document # None /\ iparams[1].document_orientation # None

ImgNormalized == ipc \in {"normalized", "binarized", "tables_detected", "done"}

Count(calls, name) == Cardinality({ i \in 1..Len(calls) : calls[i] = name })

\* C4, as stated: with both hints supplied the layout classifier is never called and
\* the rotation angle the normalizer reports is 0, whatever the skew corrector does.
C4_BothHintsReportZero ==
    (ImgNormalized /\ BothHints) =>
        (Count(icalls, "predict") = 0 /\ iangle = Some(0))

\* C4, amended: with both hints supplied the layout classifier is never called and
\* the angle requested from the skew corrector is 0; the angle the normalizer reports
\* is the rotated_angle the skew corrector returns for that request.
C4_BothHintsRequestZero ==
    (ImgNormalized /\ BothHints) =>
        /\ Count(icalls, "predict") = 0
        /\ ipredicted = None
        /\ irequested = Some(0)
        /\ iangle = irotated

\* C4 witness: both hints, a nonzero orientation hint, and a skew corrector that
\* applied a nonzero angle.
C4_Witness ==
    /\ ipc = "done"
    /\ BothHints
    /\ iparams[1].document_orientation # Some(0)
    /\ irotated # Some(0)

\* C5: the angle the normalizer returns, and the single angle the image page pipeline
\* reports, is the rotated_angle the skew corrector returned, for every combination
\* of hints.
C5_ReportedAngleIsApplied ==
    /\ ImgNormalized => iangle = irotated
    /\ ipc = "done" => iresult[1].angles = <<irotated[1]>>

\* C5 witness: a finished page whose applied angle differs from the requested one.
C5_Witness ==
    /\ ipc = "done"
    /\ irotated # irequested
    /\ iresult[1].angles = <<irotated[1]>>

C7_AngleSequenceLength ==
    /\ ipc = "done" => (Len(iresult[1].angles) = 1 /\ iresult[1].angles[1] = irotated[1])
    /\ tpc = "done" => (tresult # None /\ tresult[1].angles = <<>>)
    /\ ipc # "done" => iresult = None
    /\ tpc # "done" => tresult = None

\* C7 witness: an image page result with binarization and table analysis requested.
C7_Witness ==
    /\ ipc = "done"
    /\ iparams[1].need_binarization
    /\ iparams[1].need_pdf_table_analysis
    /\ Len(iresult[1].angles) = 1

ReconciliationSteps ==
    {"_move_table_cells", "frame_filter", "table_filter",
     "extract_metadata_and_set_annotations", "change_table_boxes_page_width_heigth"}

\* C8: when the text-layer extractor returns no page the pipeline returns four empty
\* sequences, whatever was requested and whatever the table recognizer found, and no
\* reconciliation step has run.
C8_NoPageGivesEmptyResult ==
    TxtReturnedNoPage =>
        /\ tresult = Some([lines |-> <<>>, tables |-> <<>>, attachments |-> <<>>,
                           angles |-> <<>>])
        /\ \A i \in 1..Len(tsteps) : tsteps[i] \notin ReconciliationSteps
        /\ tsteps[Len(tsteps)] = "extract_text_layer"

\* C8 witness: no page, with frame analysis requested and tables already recognized.
C8_Witness ==
    /\ TxtReturnedNoPage
    /\ tparams[1].need_gost_frame_analysis
    /\ tparams[1].need_pdf_table_analysis
    /\ Len(ttables) > 0

OleComplete == opc = "done" /\ Len(ostream) >= CompleteLen(ofields[1])
OleTruncated == opc = "done" /\ Len(ostream) < CompleteLen(ofields[1])

\* the filename as the str whose code points are the bytes of the name
DecodedName(bytes) == [i \in 1..Len(bytes) |-> bytes[i]]

\* C9: a stream laid out as 6 header bytes, filename + 0, filepath + 0, 4 unused
\* bytes, little-endian length + temporary path, little-endian length N + N payload
\* bytes is parsed into exactly that filename and exactly those N bytes, also with an
\* empty filename or filepath and with bytes after the payload.
C9_RoundTrip ==
    OleComplete =>
        /\ ~oresult[1].raised
        /\ oresult[1].filename = DecodedName(ofields[1].filename)
        /\ oresult[1].contents = ofields[1].payload

\* C9 witness: a parsed stream with an empty filename, an empty filepath, a payload
\* and bytes after the payload.
C9_Witness ==
    /\ OleComplete
    /\ ofields[1].filename = <<>>
    /\ ofields[1].filepath = <<>>
    /\ Len(ofields[1].payload) > 0
    /\ Len(ofields[1].trailing) > 0
    /\ Len(ostream) > CompleteLen(ofields[1])
    /\ oresult[1].contents = ofields[1].payload

\* C10: the parser fails on every stream that is cut before one of its fields is
\* complete; it never returns a filename or a payload shorter than the stream declares.
C10_TruncatedStreamFails ==
    OleTruncated => oresult[1].raised

GaDone == gpc = "done"
GaReturnedList == GaDone /\ greturn[1].kind = "list"
GaOpened == GaDone /\ gopens > 0

IsMedia(member) == startswith(member.path, Str_word_media)
IsEmbedded(member) == startswith(member.path, Str_word_embeddings)
BaseName(member) == os_path_split_tail(member.path)
IsBin(member) == endswith(BaseName(member), Str_bin)
IsEmf(member) == endswith(BaseName(member), Str_emf)

Attached(name, data) == [original_name |-> name, data |-> data]

ConcatAll(seqs) ==
    LET RECURSIVE Go(_)
        Go(i) == IF i > Len(seqs) THEN <<>> ELSE seqs[i] \o Go(i + 1)
    IN  Go(1)

\* the attachments of the entries whose processing does not fail, in the order of
\* `attachments`
AttachmentsOfSoundEntries ==
    ConcatAll([i \in 1..Len(gattachments) |->
        IF process_attachment(gattachments[i]).raised THEN <<>>
        ELSE content2attach_file(process_attachment(gattachments[i]).appended)])

\* C11: a failure while processing one archive entry skips only that entry: what the
\* earlier entries and the later sibling entries give is still returned.
C11_FailedEntryOnlySkipped ==
    (GaReturnedList /\ gfailed # <<>>) => greturn[1].value = AttachmentsOfSoundEntries

\* C12: any failure while processing the container, the archive failing to open
\* included, is caught inside get_attachments and gives an empty list; no exception
\* reaches the caller for a document with the recognized extension.
C12_FailuresGiveEmptyList ==
    (GaDone /\ gdoc[1].ext = Str_docx /\ (~gdoc[1].openable \/ gfailed # <<>>)) =>
        greturn = Returned("list", <<>>)

\* C13: for a document whose extension is not the recognized one get_attachments
\* returns a list with zero elements (not an error, not a missing value) and opens no
\* archive.
C13_OtherExtensionGivesEmptyList ==
    (GaDone /\ gdoc[1].ext # Str_docx) =>
        (greturn = Returned("list", <<>>) /\ gopens = 0 /\ ghandle = "none")

\* what C14 says a .bin entry gives
ClaimedOfBin(member) ==
    LET ole == member.ole
    IN  IF ole.CONTENTS # None /\ Take(ole.CONTENTS[1], 5) = PdfMagic
          THEN << Attached(os_path_splitext_root(BaseName(member)) \o Str_pdf,
                           ole.CONTENTS[1]) >>
        ELSE IF ole.Ole10Native # None
          THEN << Attached(parse_ole_contents(ole.Ole10Native[1]).filename,
                           parse_ole_contents(ole.Ole10Native[1]).contents) >>
        ELSE <<>>

\* C14: a .bin entry gives <stem>.pdf with the CONTENTS payload when CONTENTS starts
\* with %PDF-; otherwise, whenever a \x01Ole10Native stream exists (also next to a
\* CONTENTS stream without the PDF magic), what the compound stream parser recovers;
\* and nothing only when neither applies.
C14_BinEntryAttachment ==
    (GaReturnedList /\ gfailed = <<>>) =>
        greturn[1].value =
            ConcatAll([i \in 1..Len(gattachments) |->
                IF IsBin(gattachments[i]) THEN ClaimedOfBin(gattachments[i])
                ELSE content2attach_file(process_attachment(gattachments[i]).appended)])

Occurrences(seq, x) == Cardinality({ i \in 1..Len(seq) : seq[i] = x })

HasPdfContents(member) ==
    /\ ~member.ole.corrupt
    /\ member.ole.CONTENTS # None
    /\ Take(member.ole.CONTENTS[1], 5) = PdfMagic

\* C15: for every container the collected attachments hold exactly one entry (base
\* name, raw bytes) per member of the two subtrees that ends neither in .emf nor in
\* .bin, nothing for a member ending in .emf, one entry <stem>.pdf for a .bin member
\* with a PDF CONTENTS stream, and nothing for members outside the two subtrees.
C15_OneEntryPerMember ==
    (GaOpened /\ greturn[1].kind = "list") =>
        \A i \in 1..Len(gdoc[1].files) :
            LET member == gdoc[1].files[i]
                direct == Occurrences(greturn[1].value,
                                      Attached(BaseName(member), member.data))
                named == { j \in 1..Len(greturn[1].value) :
                             greturn[1].value[j].original_name = BaseName(member) }
            IN  IF ~(IsMedia(member) \/ IsEmbedded(member)) \/ IsEmf(member)
                  THEN named = {}
                ELSE IF ~IsBin(member)
                  THEN direct = 1
                ELSE HasPdfContents(member) =>
                        Occurrences(greturn[1].value,
                            Attached(os_path_splitext_root(BaseName(member)) \o Str_pdf,
                                     member.ole.CONTENTS[1])) = 1

\* the member of the listing at position k gives the returned attachment a
GivenBy(k, a) ==
    LET done == process_attachment(gdoc[1].files[k])
    IN  ~done.raised /\ \E n \in 1..Len(done.appended) :
                            a = Attached(done.appended[n][1], done.appended[n][2])

\* C16: the collected attachments are ordered with everything from the media subtree
\* first and everything from the embedded-object subtree after, each group in the
\* archive's listing order, for every interleaving of the two in the listing.
C16_MediaFirstThenEmbedded ==
    GaReturnedList =>
        \A i, j \in 1..Len(greturn[1].value) :
            i < j =>
                \E a, b \in 1..Len(gdoc[1].files) :
                    /\ GivenBy(a, greturn[1].value[i])
                    /\ GivenBy(b, greturn[1].value[j])
                    /\ \/ IsMedia(gdoc[1].files[a]) /\ IsEmbedded(gdoc[1].files[b])
                       \/ /\ IsMedia(gdoc[1].files[a]) = IsMedia(gdoc[1].files[b])
                          /\ a < b

\* C16 witness: a listing with an embedded-object member before two media members,
\* and all three returned.
C16_Witness ==
    /\ GaReturnedList
    /\ Len(greturn[1].value) = 3
    /\ Len(gdoc[1].files) = 3
    /\ IsEmbedded(gdoc[1].files[1])
    /\ IsMedia(gdoc[1].files[2])
    /\ IsMedia(gdoc[1].files[3])

\* C17: get_attachments opens at most one archive handle per document, and on every
\* exit path after the handle was opened (normal return, return from the exception
\* handler, an exception that escapes) the handle is closed when control is back at
\* the caller.
C17_HandleClosedOnExit ==
    /\ gopens <= 1
    /\ ghandle = "open" => gpc = "loop"
    /\ GaDone => ghandle = (IF gopens = 1 THEN "closed" ELSE "none")

\* C17 witness: an exception escaped the call after the archive was opened and an
\* entry was processed, and the handle is closed.
C17_Witness ==
    /\ GaDone
    /\ greturn[1].kind = "raised"
    /\ gopens = 1
    /\ gindex > 1
    /\ ghandle = "closed"

IsPrefix(a, b) == Len(a) <= Len(b) /\ SubSeq(b, 1, Len(a)) = a

\* the collaborator calls of a whole run of the image pipeline, for its parameters
ImgCallsOfRun ==
    (IF BothHints THEN <<>> ELSE <<"predict">>)
      \o <<"skew_corrector">>
      \o (IF iparams[1].need_binarization THEN <<"binarizer">> ELSE <<>>)
      \o (IF iparams[1].need_pdf_table_analysis
            THEN <<"recognize_tables_from_image">> ELSE <<>>)
      \o <<"split_image2lines", "extract_metadata_and_set_annotations">>

\* the image as the binarization stage leaves it
ImgAfterBinarization ==
    <<"rotated">> \o (IF iparams[1].need_binarization THEN <<"binarized">> ELSE <<>>)

ImgStageOrder ==
    { <<"idle", "received">>, <<"received", "normalized">>, <<"normalized", "binarized">>,
      <<"binarized", "tables_detected">>, <<"tables_detected", "done">> }

C18_Calls ==
    /\ ipc # "idle" => IsPrefix(icalls, ImgCallsOfRun)
    /\ ipc = "done" =>
          /\ icalls = ImgCallsOfRun
          /\ Count(icalls, "split_image2lines") = 1
          /\ iocr_image =
               Some(ImgAfterBinarization
                      \o (IF iparams[1].need_pdf_table_analysis
                            THEN <<"cleaned">> ELSE <<>>))
          /\ ~iparams[1].need_pdf_table_analysis => iresult[1].tables = <<>>
    /\ \A i \in 1..Len(tsteps) :
          tsteps[i] \notin {"predict", "skew_corrector", "binarizer"}
    /\ tpc # "idle" => (ipc = "idle" /\ icalls = <<>>)

C18_Step == ipc' # ipc => <<ipc, ipc'>> \in ImgStageOrder

EsDone == epc = "done"

\* C19: after the loop of __save_images over errors_uids, every uid whose image
\* <uid>.jpg is in the images archive has that image in errors_images_archive, the
\* second and later uids of a document drawn during this run included.
C19_ArchivedErrorImagesAreSaved ==
    EsDone =>
        \A i \in 1..Len(euids) :
           img_name(euids[i]) \in eimages_archive =>
               img_name(euids[i]) \in eerrors_images_archive

====
